---- MODULE Spec2Model ----
(***************************************************************************)
(* Vet Clinic MCP: the two tool-invocation orchestrators                   *)
(* (client.py VetClaudeClient.chat_session, backend/mcp_client.py          *)
(* process_message), the MCP session they open around a tool-provider      *)
(* subprocess, and the tools of server.py that write the shared SQLite     *)
(* store: create_patient, update_patient, add_appointment,                 *)
(* add_weight_record and add_vaccination.                                  *)
(*                                                                         *)
(* One step of the model is one suspension point of a coroutine: entering  *)
(* the session context, the handshake, tool discovery, a model-service     *)
(* call, reading the user's input, one iteration of the loop over the      *)
(* reply's content blocks, one tool invocation, the follow-up model call,  *)
(* and leaving the session context.                                        *)
(***************************************************************************)
EXTENDS Integers, Sequences, FiniteSets, TLC

\* ------------------------------------------------------------------ bounds

\* Longest reply (number of content blocks) the model service gives
\* process_message.
MaxBlocks == 2
\* Longest reply the model service gives chat_session, whose conversation
\* keeps every block of every reply.
ChatMaxBlocks == 1
\* Number of user inputs other than "exit" read by one chat_session.
MaxInputs == 1
\* Longest reply when two sessions run side by side (SpecIso).
IsoMaxBlocks == 1
\* Rows added to each of appointments, weight_records and vaccinations
\* beyond the sample rows (SpecDb).
MaxRecords == 1

Sessions == {"s1", "s2"}

\* Python's None / SQL NULL.
None == "None"

\* ------------------------------------------------------------ sequences

Last(q) == q[Len(q)]

\* All sequences over S of length 1..n.
SeqsUpTo(S, n) == UNION {[1..k -> S] : k \in 1..n}

\* ----------------------------------------------------------- the store

\* init.py sample_patients: the rows init_db inserts into patients.
sample_patients ==
    << [id |-> "P001", name |-> "Max", species |-> "Dog",
        breed |-> "Labrador Retriever", gender |-> "Male",
        birth_date |-> <<"2","0","1","8","-","0","5","-","1","0">>,
        microchip_number |-> "MC123456"],
       [id |-> "P002", name |-> "Luna", species |-> "Cat",
        breed |-> "Maine Coon", gender |-> "Female",
        birth_date |-> <<"2","0","1","9","-","0","3","-","1","5">>,
        microchip_number |-> "MC789012"],
       [id |-> "P003", name |-> "Charlie", species |-> "Dog",
        breed |-> "Golden Retriever", gender |-> "Male",
        birth_date |-> <<"2","0","2","0","-","1","1","-","2","0">>,
        microchip_number |-> "MC345678"] >>

\* SELECT id FROM patients WHERE id = ? ... fetchone() is not None.
PatientExists(rows, id) == \E i \in 1..Len(rows) : rows[i].id = id

\* A string is a sequence of one-character strings where its characters
\* matter (dates); DigitChars[i] is the digit i-1.
DigitChars == <<"0","1","2","3","4","5","6","7","8","9">>

IsDigit(c) == \E i \in 1..10 : DigitChars[i] = c

DigitVal(c) == (CHOOSE i \in 1..10 : DigitChars[i] = c) - 1

\* The value of a run of one or two digits.
NumVal(q) == IF Len(q) = 1 THEN DigitVal(q[1])
             ELSE 10 * DigitVal(q[1]) + DigitVal(q[2])

IsLeap(y) == (y % 4 = 0 /\ y % 100 # 0) \/ y % 400 = 0

DaysIn(y, m) == IF m = 2 THEN (IF IsLeap(y) THEN 29 ELSE 28)
                ELSE IF m \in {4, 6, 9, 11} THEN 30 ELSE 31

\* datetime.strptime(s, '%Y-%m-%d') does not raise ValueError: four digits,
\* "-", a month of one or two digits in 1..12, "-", a day of one or two
\* digits in 1..31 (or a blank and a digit) that the month has; year >= 1.
StrptimeYMD(s) ==
    \E ml \in {1, 2}, dl \in {1, 2} :
        /\ Len(s) = 4 + 1 + ml + 1 + dl
        /\ \A i \in 1..4 : IsDigit(s[i])
        /\ s[5] = "-"
        /\ s[6 + ml] = "-"
        /\ \A i \in 6..(5 + ml) : IsDigit(s[i])
        /\ LET y == 1000 * DigitVal(s[1]) + 100 * DigitVal(s[2])
                    + 10 * DigitVal(s[3]) + DigitVal(s[4])
               m == NumVal(SubSeq(s, 6, 5 + ml))
               dpart == SubSeq(s, 7 + ml, 6 + ml + dl)
               dd == IF dl = 2 /\ dpart[1] = " " THEN <<dpart[2]>> ELSE dpart
           IN  /\ \A i \in 1..Len(dd) : IsDigit(dd[i])
               /\ y >= 1
               /\ m \in 1..12
               /\ NumVal(dd) \in 1..31
               /\ (dl = 2 /\ dpart[1] = " ") => DigitVal(dd[1]) # 0
               /\ NumVal(dd) <= DaysIn(y, m)

\* None where a date string (a character sequence) is expected.
NoDate == <<None>>

\* Python truthiness of an Optional[str]: None and "" are falsy.
Truthy(v) == v # None /\ v # ""

\* The same for a date string: None and the empty string are falsy.
TruthyDate(v) == v # NoDate /\ v # <<>>

\* The parameters of server.py create_patient and the required ones.
CreatePatientParams ==
    {"id", "name", "species", "breed", "gender", "birth_date", "microchip_number"}

CreatePatientRequired == {"id", "name", "species"}

\* The value bound to parameter k: the argument, or the default None.
Arg(a, k) == IF k \in DOMAIN a THEN a[k]
             ELSE IF k = "birth_date" THEN NoDate ELSE None

\* The row create_patient inserts for arguments a.
PatientRow(a) == [k \in CreatePatientParams |-> Arg(a, k)]

\* A create_patient that reports success without the row being stored.
InsertPatientNoOp(rows, a) == rows

\* INSERT INTO patients ... ; conn.commit(): the table afterwards.
InsertPatient(rows, a) == Append(rows, PatientRow(a))

\* A create_patient that writes over the row of an id that exists
\* (INSERT OR REPLACE) and has no check of its own.
create_patient_replace(rows, a) ==
    IF TruthyDate(Arg(a, "birth_date")) /\ ~StrptimeYMD(Arg(a, "birth_date"))
    THEN [text |-> <<"Error: Birth date must be in YYYY-MM-DD format.">>,
          rows |-> rows]
    ELSE [text |-> <<"Patient ", Arg(a, "name"), " (ID: ", Arg(a, "id"),
                     ") created successfully.">>,
          rows |-> IF PatientExists(rows, Arg(a, "id"))
                   THEN [i \in 1..Len(rows) |->
                            IF rows[i].id = Arg(a, "id")
                            THEN PatientRow(a) ELSE rows[i]]
                   ELSE InsertPatient(rows, a)]

\* server.py create_patient: [text |-> the returned string (an f-string is
\* the tuple of its pieces), rows |-> the patients table afterwards].
create_patient(rows, a) ==
    IF PatientExists(rows, Arg(a, "id"))
    THEN [text |-> <<"Error: Patient with ID ", Arg(a, "id"), " already exists.">>,
          rows |-> rows]
    ELSE IF TruthyDate(Arg(a, "birth_date")) /\ ~StrptimeYMD(Arg(a, "birth_date"))
    THEN [text |-> <<"Error: Birth date must be in YYYY-MM-DD format.">>,
          rows |-> rows]
    ELSE [text |-> <<"Patient ", Arg(a, "name"), " (ID: ", Arg(a, "id"),
                     ") created successfully.">>,
          rows |-> InsertPatient(rows, a)]

\* ------------------------------------- the other tables and tools

\* init.py sample_appointments, sample_weights, sample_vaccinations: the
\* rows init_db inserts. A weight is held in tenths of a kilogram (32.5 kg
\* is 325), dates as character sequences.
sample_appointments ==
    << [patient_id |-> "P001", date |-> <<"2","0","2","3","-","1","1","-","1","5"," ","1","0",":","0","0">>,
        status |-> "Completed", notes |-> "Annual checkup",
        appointment_type |-> "Checkup"],
       [patient_id |-> "P002", date |-> <<"2","0","2","3","-","1","2","-","0","5"," ","1","4",":","3","0">>,
        status |-> "Scheduled", notes |-> "Vaccination due",
        appointment_type |-> "Vaccination"],
       [patient_id |-> "P003", date |-> <<"2","0","2","3","-","1","1","-","2","8"," ","1","1",":","1","5">>,
        status |-> "Completed", notes |-> "Limping on left hind leg",
        appointment_type |-> "Examination"] >>

sample_weights ==
    << [patient_id |-> "P001", weight |-> 325,
        date |-> <<"2","0","2","3","-","1","1","-","1","5">>, note |-> "Healthy weight"],
       [patient_id |-> "P002", weight |-> 122,
        date |-> <<"2","0","2","3","-","1","0","-","2","0">>, note |-> "Slightly overweight"],
       [patient_id |-> "P003", weight |-> 287,
        date |-> <<"2","0","2","3","-","1","1","-","2","8">>, note |-> "Weight stable"] >>

sample_vaccinations ==
    << [patient_id |-> "P001", type |-> "Rabies",
        date |-> <<"2","0","2","3","-","0","1","-","1","5">>,
        expiration_date |-> <<"2","0","2","4","-","0","1","-","1","5">>],
       [patient_id |-> "P002", type |-> "FVRCP",
        date |-> <<"2","0","2","3","-","0","8","-","1","0">>,
        expiration_date |-> <<"2","0","2","4","-","0","8","-","1","0">>],
       [patient_id |-> "P003", type |-> "DHPP",
        date |-> <<"2","0","2","3","-","0","4","-","2","2">>,
        expiration_date |-> <<"2","0","2","4","-","0","4","-","2","2">>] >>

\* datetime.strptime(s, '%Y-%m-%d %H:%M') does not raise ValueError: a date
\* as for '%Y-%m-%d', one or more blanks, an hour of one or two digits in
\* 0..23, ":", a minute of one or two digits in 0..59, and nothing more.
StrptimeYMDHM(s) ==
    \E k \in 8..10, sp \in 1..Len(s), hl \in {1, 2}, nl \in {1, 2} :
        /\ Len(s) = k + sp + hl + 1 + nl
        /\ StrptimeYMD(SubSeq(s, 1, k))
        /\ \A i \in (k + 1)..(k + sp) : s[i] = " "
        /\ \A i \in (k + sp + 1)..(k + sp + hl) : IsDigit(s[i])
        /\ s[k + sp + hl + 1] = ":"
        /\ \A i \in (k + sp + hl + 2)..Len(s) : IsDigit(s[i])
        /\ NumVal(SubSeq(s, k + sp + 1, k + sp + hl)) <= 23
        /\ NumVal(SubSeq(s, k + sp + hl + 2, Len(s))) <= 59

\* SELECT id, name FROM patients WHERE id = ? ... fetchone(): the row.
PatientById(rows, id) == rows[CHOOSE i \in 1..Len(rows) : rows[i].id = id]

\* The columns update_patient sets for arguments a: name and species when
\* truthy, the optional columns when not None.
UpdateFields(a) ==
    {k \in {"name", "species"} : Truthy(Arg(a, k))}
        \cup {k \in {"breed", "gender", "microchip_number"} : Arg(a, k) # None}
        \cup (IF Arg(a, "birth_date") # NoDate THEN {"birth_date"} ELSE {})

\* An UPDATE without its WHERE clause: every patient gets the new values.
UpdateRowsNoWhere(rows, a) ==
    [i \in 1..Len(rows) |->
        [k \in CreatePatientParams |->
            IF k \in UpdateFields(a) THEN Arg(a, k) ELSE rows[i][k]]]

\* UPDATE patients SET <fields> WHERE id = ?; conn.commit().
UpdateRows(rows, a) ==
    [i \in 1..Len(rows) |->
        IF rows[i].id = Arg(a, "id")
        THEN [k \in CreatePatientParams |->
                 IF k \in UpdateFields(a) THEN Arg(a, k) ELSE rows[i][k]]
        ELSE rows[i]]

\* server.py update_patient: the returned string and the patients table
\* afterwards.
update_patient(rows, a) ==
    IF ~PatientExists(rows, Arg(a, "id"))
    THEN [text |-> <<"Error: Patient with ID ", Arg(a, "id"), " not found.">>,
          rows |-> rows]
    ELSE IF TruthyDate(Arg(a, "birth_date")) /\ ~StrptimeYMD(Arg(a, "birth_date"))
    THEN [text |-> <<"Error: Birth date must be in YYYY-MM-DD format.">>,
          rows |-> rows]
    ELSE IF UpdateFields(a) = {}
    THEN [text |-> <<"No fields provided for update.">>, rows |-> rows]
    ELSE [text |-> <<"Patient ", Arg(a, "id"), " updated successfully.">>,
          rows |-> UpdateRows(rows, a)]

\* An add_appointment that looks at the date only.
add_appointment_unchecked(prows, rows, a) ==
    IF ~StrptimeYMDHM(a.date)
    THEN [text |-> <<"Error: Date must be in YYYY-MM-DD HH:MM format.">>,
          rows |-> rows]
    ELSE [text |-> <<"Appointment scheduled on ", a.date, " successfully.">>,
          rows |-> Append(rows, [patient_id |-> a.patient_id, date |-> a.date,
                                 status |-> a.status, notes |-> a.notes,
                                 appointment_type |-> a.appointment_type])]

\* server.py add_appointment: the returned string and the appointments
\* table afterwards; prows is the patients table.
add_appointment(prows, rows, a) ==
    IF ~PatientExists(prows, a.patient_id)
    THEN [text |-> <<"Error: Patient with ID ", a.patient_id, " not found.">>,
          rows |-> rows]
    ELSE IF ~StrptimeYMDHM(a.date)
    THEN [text |-> <<"Error: Date must be in YYYY-MM-DD HH:MM format.">>,
          rows |-> rows]
    ELSE [text |-> <<"Appointment for ", PatientById(prows, a.patient_id).name,
                     " scheduled on ", a.date, " successfully.">>,
          rows |-> Append(rows, [patient_id |-> a.patient_id, date |-> a.date,
                                 status |-> a.status, notes |-> a.notes,
                                 appointment_type |-> a.appointment_type])]

\* A weight check that lets zero through.
WeightRejectedBelowZero(w) == w < 0

\* if weight <= 0: the weight is refused.
WeightRejected(w) == w <= 0

\* server.py add_weight_record: the returned string and the weight_records
\* table afterwards.
add_weight_record(prows, rows, a) ==
    IF ~PatientExists(prows, a.patient_id)
    THEN [text |-> <<"Error: Patient with ID ", a.patient_id, " not found.">>,
          rows |-> rows]
    ELSE IF ~StrptimeYMD(a.date)
    THEN [text |-> <<"Error: Date must be in YYYY-MM-DD format.">>,
          rows |-> rows]
    ELSE IF WeightRejected(a.weight)
    THEN [text |-> <<"Error: Weight must be greater than zero.">>,
          rows |-> rows]
    ELSE [text |-> <<"Weight record for ", PatientById(prows, a.patient_id).name,
                     " added successfully: ", a.weight, " kg on ", a.date, ".">>,
          rows |-> Append(rows, [patient_id |-> a.patient_id, weight |-> a.weight,
                                 date |-> a.date, note |-> a.note])]

\* server.py add_vaccination: the returned string and the vaccinations
\* table afterwards.
add_vaccination(prows, rows, a) ==
    IF ~PatientExists(prows, a.patient_id)
    THEN [text |-> <<"Error: Patient with ID ", a.patient_id, " not found.">>,
          rows |-> rows]
    ELSE IF ~(StrptimeYMD(a.date) /\ StrptimeYMD(a.expiration_date))
    THEN [text |-> <<"Error: Dates must be in YYYY-MM-DD format.">>,
          rows |-> rows]
    ELSE [text |-> <<"Vaccination record for ",
                     PatientById(prows, a.patient_id).name,
                     " added successfully: ", a.type, " on ", a.date, ".">>,
          rows |-> Append(rows, [patient_id |-> a.patient_id, type |-> a.type,
                                 date |-> a.date,
                                 expiration_date |-> a.expiration_date])]

\* ------------------------------------------------- the tool provider

\* The tools server.py registers with @mcp.tool().
ToolNames == {"query_patients", "create_patient", "update_patient",
              "add_appointment", "add_weight_record", "add_vaccination"}

\* The arguments conform to the tool's input schema: every required
\* parameter is given and no other name is.
SchemaOk(name, a) ==
    name = "create_patient"
        /\ CreatePatientRequired \subseteq DOMAIN a
        /\ DOMAIN a \subseteq CreatePatientParams

\* The invocation names a discovered tool and its arguments fit the schema.
ValidInvocation(catalog, name, a) == name \in catalog /\ SchemaOk(name, a)

\* What the tool provider answers to a tools/call request: the result's
\* content items, its isError flag and the patients table afterwards. An
\* unknown tool or arguments that do not fit the schema give an error
\* result; otherwise the tool runs (the replies of this model name no
\* tool other than create_patient) and its string is the one text item.
ServerCallTool(rows, name, a) ==
    IF name \notin ToolNames
    THEN [content |-> << [text |-> <<"Unknown tool: ", name>>] >>,
          isError |-> TRUE, rows |-> rows]
    ELSE IF ~SchemaOk(name, a)
    THEN [content |-> << [text |-> <<"Error executing tool ", name>>] >>,
          isError |-> TRUE, rows |-> rows]
    ELSE LET out == create_patient(rows, a)
         IN  [content |-> << [text |-> out.text] >>,
              isError |-> FALSE, rows |-> out.rows]

RECURSIVE ExtractText(_, _, _)
\* tool_result = "Tool execution failed."; for item in result.content:
\*     if hasattr(item, 'text'): tool_result = item.text
ExtractText(content, i, acc) ==
    IF i > Len(content) THEN acc
    ELSE ExtractText(content, i + 1,
                     IF "text" \in DOMAIN content[i] THEN content[i].text ELSE acc)

\* ------------------------------------------------- the model service

\* Content blocks of a reply as the model service writes them, before the
\* service gives each tool_use block its id.
TextBlock(t) == [type |-> "text", text |-> t]

ToolUseBlock(name, a) == [type |-> "tool_use", name |-> name, input |-> a, id |-> <<>>]

RexArgs == [id |-> "P010", name |-> "Rex", species |-> "Dog"]

Blocks ==
    { TextBlock("Created."),
      ToolUseBlock("create_patient", RexArgs),
      ToolUseBlock("create_patient", [id |-> "P011"]),
      ToolUseBlock("no_such_tool", [id |-> "P010"]) }

\* The replies the model service can give, up to n blocks long.
Replies(n) == SeqsUpTo(Blocks, n)

\* The replies a coroutine of mode m is given in a single-session run.
ReplySet(m) == Replies(IF m = "chat" THEN ChatMaxBlocks ELSE MaxBlocks)

\* The replies given when two sessions run side by side.
IsoBlocks == {TextBlock("Created."), ToolUseBlock("create_patient", RexArgs)}

IsoReplies == SeqsUpTo(IsoBlocks, IsoMaxBlocks)

\* The reply to the n-th model-service call of a session with each
\* tool_use block given its call id: ids are unique, the id of block i of
\* reply n is <<n, i>>.
Stamp(r, n) ==
    [i \in 1..Len(r) |->
        IF r[i].type = "tool_use" THEN [r[i] EXCEPT !.id = <<n, i>>] ELSE r[i]]

HasToolUse(r) == \E i \in 1..Len(r) : r[i].type = "tool_use"

\* ------------------------------------------------- conversation turns

\* {"role": role, "content": text}
TextTurn(role, t) == [role |-> role, type |-> "text", text |-> t]

\* {"role": "assistant", "content": [{"type": "tool_use", "id", "name", "input"}]}
ToolUseTurn(b) ==
    [role |-> "assistant", type |-> "tool_use", id |-> b.id,
     name |-> b.name, input |-> b.input]

\* {"role": "user", "content": [{"type": "tool_result", "tool_use_id", "content"}]}
\* The block has no "is_error" key on any path.
ToolResultTurn(b, content) ==
    [role |-> "user", type |-> "tool_result", tool_use_id |-> b.id,
     content |-> content, is_error |-> FALSE]

\* f"Error executing tool: {str(e)}"
ErrorMessage(e) == <<"Error executing tool: ", e>>

\* The opening user turn of chat_session and the user's message.
Greeting == "I'm a veterinarian using a practice management system."

UserMessage == "Please register Rex."

\* --------------------------------------------------------- the state

\* sess[s]: the session s and the coroutine running it.
\*   pc            where the coroutine is
\*   mode          "chat" (chat_session) or "pm" (process_message)
\*   open          the session context is entered and not yet left
\*   closes        how many times the session context was left (closed)
\*   alive         the tool-provider subprocess is running
\*   initialized   the handshake has completed
\*   tools         the catalog built from list_tools()
\*   messages      chat_session's conversation
\*   results       process_message's result list
\*   response, idx the reply being scanned and the position in it
\*   tool_result   the text extracted from the last tool result
\*   tool_response the reply to the follow-up call
\*   sub           the arguments of the last model-service call
\*   calls         model-service calls made
\*   sent          tools/call requests written to the channel
\*   invoked       session.call_tool invocations made
\*   inputs        user inputs read, "exit" not counted
\*   tool_use_only a reply was given for the current user input and every
\*                 reply for it held a tool_use block
\*   handshakes    session.initialize() calls made
\*   listed        session.list_tools() calls made
\* patients, appointments, weight_records, vaccinations: the rows of the
\* tables of vet_clinic.db, shared by every tool-provider subprocess.
\* last: the tool function called last on the store directly, with its
\* arguments and the string it returned.
\* db: the file vet_clinic.db: "absent", "empty" (created by
\* sqlite3.connect, no table in it) or "ready" (init_db has run).
\* inv: per tool-provider process, the tool function it is running step by
\* step:
\*   pc    "idle", "select", "validate", "insert", "commit", "returned",
\*         "raised"
\*   tool  the tool function
\*   args  its arguments
\*   conn  the connection get_db_connection() gave it: "none", "open",
\*         "closed"
\*   text  the string it returned
VARIABLES sess, patients, appointments, weight_records, vaccinations, last,
          db, inv

tables == <<appointments, weight_records, vaccinations>>

server == <<db, inv>>

others == <<tables, last, server>>

vars == <<sess, patients, tables, last, server>>

NoSubmission == [messages |-> <<>>, with_tools |-> FALSE]

InitSession ==
    [pc |-> "start", mode |-> "none", open |-> FALSE, closes |-> 0,
     alive |-> FALSE, initialized |-> FALSE, tools |-> {},
     messages |-> <<>>, results |-> <<>>, response |-> <<>>, idx |-> 0,
     tool_result |-> <<>>, tool_response |-> <<>>, sub |-> NoSubmission,
     calls |-> 0, sent |-> 0, invoked |-> 0, inputs |-> 0, tool_use_only |-> FALSE,
     handshakes |-> 0, listed |-> 0]

\* A tool-provider process that runs no tool function.
NoInvocation ==
    [pc |-> "idle", tool |-> "none", args |-> <<>>, conn |-> "none",
     text |-> <<>>]

\* No tool function has been called on the store yet.
NoCall == [tool |-> "none", args |-> <<>>, text |-> <<>>]

\* The database after init_db has created it with the sample rows; no
\* session has started.
Init ==
    /\ sess = [s \in Sessions |-> InitSession]
    /\ patients = sample_patients
    /\ appointments = sample_appointments
    /\ weight_records = sample_weights
    /\ vaccinations = sample_vaccinations
    /\ last = NoCall
    /\ db = "ready"
    /\ inv = [p \in Sessions |-> NoInvocation]

\* One process-wide session object: closing it, or its subprocess
\* exiting, is seen by every coroutine.
PutShared(s, r) ==
    sess' = [t \in Sessions |->
                IF t = s THEN r
                ELSE [sess[t] EXCEPT !.open = @ /\ r.open, !.alive = @ /\ r.alive]]

\* The coroutine of session s moves to record r. Its session object, its
\* streams and its locals are its own: every call of chat_session or
\* process_message enters its own stdio_client and ClientSession contexts.
Put(s, r) == sess' = [sess EXCEPT ![s] = r]

\* The exceptions of the two remote parties, as str(e) shows them.
TransportExc == "Connection closed"

ModelExc == "APIConnectionError"

\* ------------------------------------------------ the session context

\* async with stdio_client(...) / ClientSession(...) left: the streams are
\* shut down and the subprocess is terminated.
Closed(r) == [r EXCEPT !.open = FALSE, !.alive = FALSE, !.closes = @ + 1]

\* An exception that leaves the coroutine without the contexts' exit.
UnwindLeak(r) == [r EXCEPT !.pc = "raised"]

\* An exception leaves the coroutine through both "async with" blocks.
Unwind(r) == [Closed(r) EXCEPT !.pc = "raised"]

\* The coroutine returns through both "async with" blocks.
Return(r) == [Closed(r) EXCEPT !.pc = "returned"]

\* async with stdio_client(server_params) as (read_stream, write_stream):
\*     async with ClientSession(read_stream, write_stream) as session:
\* The subprocess is spawned and the session context entered; m is the
\* coroutine that does it.
Connect(s, m) ==
    /\ sess[s].pc = "start"
    /\ Put(s, [sess[s] EXCEPT !.pc = "initialize", !.mode = m,
                              !.open = TRUE, !.alive = TRUE])
    /\ UNCHANGED <<patients, others>>

\* A handshake whose exception is swallowed: the coroutine goes on to
\* discovery on a session that was never initialized.
InitializeSwallowed(s) ==
    /\ sess[s].pc = "initialize"
    /\ \/ Put(s, [sess[s] EXCEPT !.pc = "list_tools", !.initialized = TRUE,
                                 !.handshakes = @ + 1])
       \/ Put(s, [sess[s] EXCEPT !.pc = "list_tools", !.handshakes = @ + 1])
    /\ UNCHANGED <<patients, others>>

\* await session.initialize(): the handshake completes, or raises.
Initialize(s) ==
    /\ sess[s].pc = "initialize"
    /\ \/ Put(s, [sess[s] EXCEPT !.pc = "list_tools", !.initialized = TRUE,
                                 !.handshakes = @ + 1])
       \/ Put(s, Unwind([sess[s] EXCEPT !.handshakes = @ + 1]))
    /\ UNCHANGED <<patients, others>>

\* tools_result = await session.list_tools() and the loop building tools;
\* chat_session then seeds messages with the greeting turn.
ListTools(s) ==
    /\ sess[s].pc = "list_tools"
    /\ \/ Put(s, [sess[s] EXCEPT
                    !.tools = ToolNames, !.listed = @ + 1,
                    !.pc = IF sess[s].mode = "chat" THEN "first_call" ELSE "send",
                    !.messages = IF sess[s].mode = "chat"
                                 THEN <<TextTurn("user", Greeting)>> ELSE <<>>])
       \/ Put(s, Unwind([sess[s] EXCEPT !.listed = @ + 1]))
    /\ UNCHANGED <<patients, others>>

\* ------------------------------------------------------------ chat_session

\* initial_response = self.claude.messages.create(... messages=messages ...)
\* without tools; its first block's text is appended as an assistant turn.
FirstCall(s) ==
    /\ sess[s].pc = "first_call"
    /\ LET r == [sess[s] EXCEPT
                   !.calls = @ + 1,
                   !.sub = [messages |-> sess[s].messages, with_tools |-> FALSE]]
       IN  \/ Put(s, [r EXCEPT !.pc = "input",
                               !.messages = Append(@, TextTurn("assistant", "Hello."))])
           \/ Put(s, Unwind(r))
    /\ UNCHANGED <<patients, others>>

\* user_input = input(...): "exit" breaks out of the chat loop and the
\* coroutine returns; anything else is appended as a user turn.
UserInput(s) ==
    /\ sess[s].pc = "input"
    /\ \/ Put(s, Return(sess[s]))
       \/ /\ sess[s].inputs < MaxInputs
          /\ Put(s, [sess[s] EXCEPT
                       !.pc = "send", !.inputs = @ + 1,
                       !.messages = Append(@, TextTurn("user", UserMessage))])
    /\ UNCHANGED <<patients, others>>

\* ---------------------------------------------- both orchestration loops

\* The conversation a model-service call of session record r submits:
\* chat_session passes messages; process_message passes the message alone
\* to the first call and the three-turn list to the follow-up call.
Conversation(r, followup) ==
    IF r.mode = "chat" THEN r.messages
    ELSE IF ~followup THEN <<TextTurn("user", UserMessage)>>
    ELSE <<TextTurn("user", UserMessage),
           ToolUseTurn(r.response[r.idx]),
           ToolResultTurn(r.response[r.idx], r.tool_result)>>

\* response = claude.messages.create(... messages, tools=tools ...): the
\* call raises (outside any try), or replies with one of the replies R.
Send(s, R) ==
    /\ sess[s].pc = "send"
    /\ LET r == [sess[s] EXCEPT
                   !.calls = @ + 1,
                   !.sub = [messages |-> Conversation(sess[s], FALSE),
                            with_tools |-> TRUE]]
       IN  \/ \E reply \in R :
                Put(s, [r EXCEPT
                          !.pc = "blocks",
                          !.response = Stamp(reply, r.calls),
                          !.idx = 1,
                          !.tool_use_only = HasToolUse(reply)])
           \/ Put(s, Unwind(r))
    /\ UNCHANGED <<patients, others>>

\* for content in response.content: a text block is appended (to messages
\* as an assistant turn, to results as a text entry).
TextContent(s) ==
    /\ sess[s].pc = "blocks"
    /\ sess[s].idx <= Len(sess[s].response)
    /\ sess[s].response[sess[s].idx].type = "text"
    /\ LET b == sess[s].response[sess[s].idx]
       IN  Put(s, IF sess[s].mode = "chat"
                  THEN [sess[s] EXCEPT
                          !.idx = @ + 1,
                          !.messages = Append(@, TextTurn("assistant", b.text))]
                  ELSE [sess[s] EXCEPT
                          !.idx = @ + 1,
                          !.results = Append(@, [type |-> "text", content |-> b.text])])
    /\ UNCHANGED <<patients, others>>

\* The except clause around the tool invocation and the follow-up call:
\* chat_session appends the tool_use turn and an error tool_result turn,
\* process_message appends an error entry; the loop goes on to the next
\* block.
Except(r, e) ==
    LET b == r.response[r.idx]
    IN  IF r.mode = "chat"
        THEN [r EXCEPT
                !.pc = "blocks", !.idx = @ + 1,
                !.messages = @ \o <<ToolUseTurn(b),
                                    ToolResultTurn(b, <<"Error: ">> \o ErrorMessage(e))>>]
        ELSE [r EXCEPT
                !.pc = "blocks", !.idx = @ + 1,
                !.results = Append(@, [type |-> "error", content |-> ErrorMessage(e)])]

\* The try body up to the follow-up call, after call_tool has returned
\* result: the text is extracted and the tool_use and tool_result turns
\* (chat_session) or the tool entry (process_message) are appended.
Recorded(r, result) ==
    LET b == r.response[r.idx]
        text == ExtractText(result.content, 1, <<"Tool execution failed.">>)
    IN  IF r.mode = "chat"
        THEN [r EXCEPT
                !.pc = "follow_up", !.tool_result = text,
                !.messages = @ \o <<ToolUseTurn(b), ToolResultTurn(b, text)>>]
        ELSE [r EXCEPT
                !.pc = "follow_up", !.tool_result = text,
                !.results = Append(@, [type |-> "tool", name |-> b.name,
                                       args |-> b.input, result |-> text])]

\* Whether session.call_tool writes its request to the channel: it does
\* whenever the subprocess is running; the arguments are not looked at.
SendsRequest(r, b) == r.alive

\* result = await session.call_tool(tool_name, tool_args) for a tool_use
\* block: the request is written and the provider answers, or the
\* subprocess exits with the call in flight, or the channel is already
\* broken; both failures raise into the except clause.
CallTool(s) ==
    /\ sess[s].pc = "blocks"
    /\ sess[s].idx <= Len(sess[s].response)
    /\ sess[s].response[sess[s].idx].type = "tool_use"
    /\ LET b == sess[s].response[sess[s].idx]
           r == [sess[s] EXCEPT !.invoked = @ + 1,
                                !.sent = IF SendsRequest(sess[s], b) THEN @ + 1 ELSE @]
           out == ServerCallTool(patients, b.name, b.input)
       IN  \/ /\ sess[s].alive
              /\ Put(s, Recorded(r, out))
              /\ patients' = out.rows
              /\ UNCHANGED others
           \/ /\ sess[s].alive
              /\ Put(s, Except([r EXCEPT !.alive = FALSE], TransportExc))
              /\ UNCHANGED <<patients, others>>
           \/ /\ ~sess[s].alive
              /\ Put(s, Except(r, TransportExc))
              /\ UNCHANGED <<patients, others>>

\* The text blocks of reply r, in order, as assistant turns.
TextTurns(r) ==
    LET F[i \in 0..Len(r)] ==
            IF i = 0 THEN <<>>
            ELSE IF r[i].type = "text"
                 THEN Append(F[i - 1], TextTurn("assistant", r[i].text))
                 ELSE F[i - 1]
    IN  F[Len(r)]

\* tool_response = claude.messages.create(...) inside the try: on a reply
\* chat_session appends its text blocks, process_message appends the
\* first block if it is text; an exception goes to the except clause.
FollowUp(s, R) ==
    /\ sess[s].pc = "follow_up"
    /\ LET r == [sess[s] EXCEPT
                   !.calls = @ + 1,
                   !.sub = [messages |-> Conversation(sess[s], TRUE),
                            with_tools |-> FALSE]]
       IN  \/ \E reply \in R :
                LET t == [r EXCEPT
                            !.pc = "blocks", !.idx = @ + 1,
                            !.tool_response = Stamp(reply, r.calls),
                            !.tool_use_only = @ /\ HasToolUse(reply)]
                IN  Put(s, IF r.mode = "chat"
                           THEN [t EXCEPT !.messages = @ \o TextTurns(reply)]
                           ELSE IF reply[1].type = "text"
                           THEN [t EXCEPT !.results =
                                     Append(@, [type |-> "text",
                                                content |-> reply[1].text])]
                           ELSE t)
           \/ Put(s, Except(r, ModelExc))
    /\ UNCHANGED <<patients, others>>

\* The loop over the reply's blocks is exhausted: chat_session goes back
\* to input() (the loop's locals are dead there: each is assigned again
\* before it is next read), process_message returns results.
LoopEnd(s) ==
    /\ sess[s].pc = "blocks"
    /\ sess[s].idx > Len(sess[s].response)
    /\ Put(s, IF sess[s].mode = "chat"
              THEN [sess[s] EXCEPT !.pc = "input", !.response = <<>>, !.idx = 0,
                                   !.tool_result = <<>>, !.tool_response = <<>>]
              ELSE Return(sess[s]))
    /\ UNCHANGED <<patients, others>>

\* ------------------------------------------------- the specifications

\* One session, run by either coroutine.
Main == "s1"

Next ==
    \/ \E m \in {"chat", "pm"} : Connect(Main, m)
    \/ Initialize(Main)
    \/ ListTools(Main)
    \/ FirstCall(Main)
    \/ UserInput(Main)
    \/ Send(Main, ReplySet(sess[Main].mode))
    \/ TextContent(Main)
    \/ CallTool(Main)
    \/ FollowUp(Main, ReplySet(sess[Main].mode))
    \/ LoopEnd(Main)

Spec == Init /\ [][Next]_vars

\* Two sessions run process_message side by side against the same
\* tool-provider command (server_params) and so the same database file.
NextIso ==
    \E s \in Sessions :
        \/ Connect(s, "pm")
        \/ Initialize(s)
        \/ ListTools(s)
        \/ Send(s, IsoReplies)
        \/ TextContent(s)
        \/ CallTool(s)
        \/ FollowUp(s, IsoReplies)
        \/ LoopEnd(s)

SpecIso == Init /\ [][NextIso]_vars

\* ------------------------------------------------------------- claims

Terminal(r) == r.pc \in {"returned", "raised"}

Running(r) == r.pc \notin {"start", "returned", "raised"}

\* The orchestration loop for one user input has ended normally.
LoopDone(r) ==
    \/ r.mode = "pm" /\ r.pc = "returned"
    \/ r.mode = "chat" /\ r.pc = "input" /\ r.inputs > 0

\* The positions of conversation c holding a tool_result for call id.
ResultsFor(c, id) ==
    {j \in 1..Len(c) : c[j].type = "tool_result" /\ c[j].tool_use_id = id}

\* Every tool_use turn of c is followed at once by a tool_result with its
\* id, and c holds no other tool_result with that id.
PairedOnce(c) ==
    \A i \in 1..Len(c) :
        c[i].type = "tool_use" =>
            /\ i < Len(c)
            /\ c[i + 1].type = "tool_result"
            /\ c[i + 1].tool_use_id = c[i].id
            /\ ResultsFor(c, c[i].id) = {i + 1}

\* C1: every tool_use block placed in the conversation is paired with
\* exactly one tool_result with the same call id, in the next turn, in the
\* conversation a session holds and in each one it submits to the model.
C1_EveryToolUsePairedOnce ==
    \A s \in Sessions :
        PairedOnce(sess[s].messages) /\ PairedOnce(sess[s].sub.messages)

\* The loop has ended in the Aborted state: a diagnostic entry is the last
\* thing appended.
Aborted(r) ==
    IF r.mode = "chat"
    THEN Len(r.messages) > 0 /\ Last(r.messages).type = "diagnostic"
    ELSE Len(r.results) > 0 /\ Last(r.results).type = "aborted"

\* No tool invocation and no model call of the session has raised.
NothingRaised(r) ==
    /\ \A i \in 1..Len(r.results) : r.results[i].type # "error"
    /\ \A i \in 1..Len(r.messages) :
          r.messages[i].type = "tool_result" => r.messages[i].content[1] # "Error: "

\* C2: when every reply of the model holds a ToolCall (and nothing fails),
\* the loop ends in the Aborted state with a diagnostic turn appended.
C2_AbortsAtTurnBound ==
    \A s \in Sessions :
        (LoopDone(sess[s]) /\ sess[s].tool_use_only /\ NothingRaised(sess[s]))
            => Aborted(sess[s])

\* Session s invokes call_tool in this step.
Invokes(s) == sess'[s].invoked = sess[s].invoked + 1

\* The block session s is at.
Block(s) == sess[s].response[sess[s].idx]

\* What the step has recorded last for the call: the tool_result turn of
\* chat_session, the entry of process_message.
LastRecorded(r) == IF r.mode = "chat" THEN Last(r.messages) ELSE Last(r.results)

ErrorTagged(r) ==
    IF r.mode = "chat"
    THEN LastRecorded(r).type = "tool_result" /\ LastRecorded(r).is_error
    ELSE LastRecorded(r).type = "error"

\* C3: an invocation of a tool that is not in the catalog, or with
\* arguments that do not fit the schema, writes nothing to the channel and
\* is recorded as an error-tagged result.
C3_InvalidInvocationNotSent ==
    [][\A s \in Sessions :
          (Invokes(s) /\ ~ValidInvocation(sess[s].tools, Block(s).name, Block(s).input))
              => (sess'[s].sent = sess[s].sent /\ ErrorTagged(sess'[s]))]_vars

\* The subprocess of session s exits with a tool invocation in flight.
ExitsMidInvoke(s) == Invokes(s) /\ sess[s].alive /\ ~sess'[s].alive

\* C4: when the subprocess exits with an invocation in flight, the loop
\* stops, the session is closed once and the error is raised to the caller.
C4_TransportFailureIsFatal ==
    [][\A s \in Sessions :
          ExitsMidInvoke(s) =>
              (sess'[s].pc = "raised" /\ ~sess'[s].open /\ sess'[s].closes = 1)]_vars

\* A failure of the model service is among the recorded tool errors.
ModelFailureRecorded(r) ==
    \/ \E i \in 1..Len(r.results) :
          r.results[i].type = "error" /\ r.results[i].content = ErrorMessage(ModelExc)
    \/ \E i \in 1..Len(r.messages) :
          /\ r.messages[i].type = "tool_result"
          /\ r.messages[i].content = <<"Error: ">> \o ErrorMessage(ModelExc)

\* C5: a failure of a model-service call is never recorded as a
\* tool-execution error; it ends the loop and closes the session.
C5_ModelFailureIsFatal ==
    \A s \in Sessions : ~ModelFailureRecorded(sess[s])

\* Session s's call_tool raises in this step.
InvocationFails(s) ==
    Invokes(s) /\ (~sess[s].alive \/ ~sess'[s].alive)

\* The conversation c holds a tool_result for call id whose content is the
\* error text.
HoldsErrorResult(c, id) ==
    \E j \in ResultsFor(c, id) : c[j].content = <<"Error: ">> \o ErrorMessage(TransportExc)

\* C6: when a tool invocation fails, the model is invoked again with a
\* conversation that holds the error result for that call id.
C6_ToolFailureFedBackToModel ==
    [][\A s \in Sessions :
          InvocationFails(s) =>
              /\ sess'[s].pc = "follow_up"
              /\ HoldsErrorResult(Conversation(sess'[s], TRUE), Block(s).id)]_vars

\* C7: a session is closed exactly once on every exit path, and not
\* before: a coroutine that has returned or raised has left its session
\* closed and its subprocess terminated.
C7_ClosedExactlyOnceOnExit ==
    \A s \in Sessions :
        /\ sess[s].closes = (IF Terminal(sess[s]) THEN 1 ELSE 0)
        /\ Terminal(sess[s]) => (~sess[s].open /\ ~sess[s].alive)
        /\ Running(sess[s]) => sess[s].open

\* C7's case: a model-service call raised after tool discovery and the
\* exception left the coroutine.
C7_Witness ==
    \E s \in Sessions :
        sess[s].pc = "raised" /\ sess[s].calls > 0 /\ sess[s].tools # {}

\* C8 (amended): a step of one session leaves every other session as it
\* was: its channel, its subprocess, whether it is open, its conversation.
C8_ChannelIsolation ==
    [][\A s, t \in Sessions :
          (s # t /\ sess'[t] # sess[t]) => sess'[s] = sess[s]]_vars

\* C8's case: one session has invoked a tool and has been closed, the
\* other is open between its tool invocation and its follow-up call.
C8_Witness ==
    \E s, t \in Sessions :
        /\ s # t
        /\ sess[s].pc = "returned" /\ sess[s].invoked > 0
        /\ sess[t].pc = "follow_up" /\ sess[t].open /\ sess[t].alive

\* The tool_use blocks a session may be given.
ToolUses(B) == {b \in B : b.type = "tool_use"}

\* C8 (as claimed): the result a running session would get from any of its
\* tool invocations does not change in a step of another session.
C8_ResultsIndependent ==
    [][\A s \in Sessions :
          (Running(sess[s]) /\ sess'[s] = sess[s]) =>
              \A b \in ToolUses(IsoBlocks) :
                  ServerCallTool(patients', b.name, b.input).content
                      = ServerCallTool(patients, b.name, b.input).content]_vars

\* The round trip's replies: one create_patient ToolCall for Rex, then the
\* text "Created." to the follow-up call.
RoundTrip(r) ==
    /\ r.mode = "pm"
    /\ r.pc = "returned"
    /\ r.response = Stamp(<<ToolUseBlock("create_patient", RexArgs)>>, 1)
    /\ r.tool_response = <<TextBlock("Created.")>>

CreatedText == <<"Patient ", "Rex", " (ID: ", "P010", ") created successfully.">>

\* C9: in the round trip the loop makes one tool invocation, submits the
\* conversation with the paired success result to the follow-up call,
\* returns the tool entry and the final text "Created.", and the store
\* holds patient P010.
C9_RoundTrip ==
    \A s \in Sessions :
        RoundTrip(sess[s]) =>
            /\ sess[s].invoked = 1 /\ sess[s].sent = 1 /\ sess[s].calls = 2
            /\ sess[s].results =
                  << [type |-> "tool", name |-> "create_patient",
                      args |-> RexArgs, result |-> CreatedText],
                     [type |-> "text", content |-> "Created."] >>
            /\ sess[s].sub.messages =
                  << TextTurn("user", UserMessage),
                     ToolUseTurn(sess[s].response[1]),
                     ToolResultTurn(sess[s].response[1], CreatedText) >>
            /\ Cardinality({i \in 1..Len(patients) : patients[i].id = "P010"}) = 1
            /\ \E i \in 1..Len(patients) :
                  patients[i] = PatientRow(RexArgs)

\* C9's case: the round trip has run to its return.
C9_Witness == \E s \in Sessions : RoundTrip(sess[s])

\* C10: the loop for one user input ends only after a reply of the model
\* without ToolCall: what it recorded last is a text of the model, never a
\* tool result or a tool error.
C10_LoopEndsAfterModelText ==
    \A s \in Sessions :
        LoopDone(sess[s]) =>
            IF sess[s].mode = "chat"
            THEN Last(sess[s].messages).type = "text"
                     /\ Last(sess[s].messages).role = "assistant"
            ELSE Len(sess[s].results) > 0 /\ Last(sess[s].results).type = "text"

\* ------------------------------------------------ C11 .. C15

\* A ToolCall of the reply being worked through that has not been invoked
\* yet: a tool_use block behind the position of the loop.
PendingToolUse(r) ==
    \E j \in (r.idx + 1)..Len(r.response) : r.response[j].type = "tool_use"

\* C11: the model is not invoked between the results of two ToolCalls of
\* the same reply: no submission to the model is made while a ToolCall of
\* the reply being worked through is still to be invoked.
C11_NoModelCallBetweenToolCalls ==
    [][\A s \in Sessions :
          (sess[s].pc = "follow_up" /\ PendingToolUse(sess[s]))
              => sess'[s].calls = sess[s].calls]_vars

\* C12: every submission to the model carries the tool catalog discovered
\* at session start, the one after the tool results included.
C12_EverySubmissionCarriesCatalog ==
    \A s \in Sessions :
        sess[s].calls > 0 => sess[s].sub.with_tools

\* Whether p is a prefix of q.
IsPrefix(p, q) == Len(p) <= Len(q) /\ SubSeq(q, 1, Len(p)) = p

\* C13: the conversation of a session is append-only: every step leaves
\* the conversation a prefix of the new one, and the turns of every
\* submission to the model extend the turns of the submission before it.
C13_ConversationAppendOnly ==
    [][\A s \in Sessions :
          /\ IsPrefix(sess[s].messages, sess'[s].messages)
          /\ (sess[s].calls > 0 /\ sess'[s].calls = sess[s].calls + 1)
                => IsPrefix(sess[s].sub.messages, sess'[s].sub.messages)]_vars

\* The part of C13 about chat_session alone: messages is only appended to,
\* and every submission carries all of it as it stands when submitted.
C13_ChatAppendOnly ==
    [][\A s \in Sessions :
          sess[s].mode = "chat" =>
              /\ IsPrefix(sess[s].messages, sess'[s].messages)
              /\ sess'[s].calls = sess[s].calls + 1
                    => sess'[s].sub.messages = sess[s].messages]_vars

\* The operations a session issued besides the handshake: discovery and
\* tool invocations.
Operations(r) == r.listed + r.invoked

\* C14: the handshake is performed once per session and has completed
\* before any other operation is issued; after a handshake that failed no
\* operation is issued at all and the coroutine has raised.
C14_HandshakeOnceAndFirst ==
    \A s \in Sessions :
        /\ sess[s].handshakes <= 1
        /\ Operations(sess[s]) > 0 =>
               sess[s].initialized /\ sess[s].handshakes = 1
        /\ (sess[s].handshakes = 1 /\ ~sess[s].initialized) =>
               Operations(sess[s]) = 0 /\ sess[s].pc = "raised"

\* C14's case: a session that went through handshake, discovery and a
\* tool invocation.
C14_Witness ==
    \E s \in Sessions :
        sess[s].handshakes = 1 /\ sess[s].listed = 1 /\ sess[s].invoked > 0

\* C15: process_message returns a definite outcome: the list it returns
\* holds a text entry or an error entry.
C15_ReturnsTextOrError ==
    \A s \in Sessions :
        (sess[s].mode = "pm" /\ sess[s].pc = "returned") =>
            \E i \in 1..Len(sess[s].results) :
                sess[s].results[i].type \in {"text", "error"}

\* The part of C15 about termination: a run of process_message makes one
\* submission for the message and at most one per ToolCall of the reply.
C15_FinitelyManyCalls ==
    \A s \in Sessions :
        sess[s].mode = "pm" =>
            /\ sess[s].calls <= 1 + MaxBlocks
            /\ sess[s].invoked <= MaxBlocks

\* ------------------------------------- tool calls made on the store

\* Dates the callers pass: well-formed ones, one with a one-digit month and
\* day, the empty string, and ones strptime refuses.
GoodDate == <<"2","0","2","4","-","0","1","-","0","5">>

LenientDate == <<"2","0","2","4","-","1","-","5">>

BadDate == <<"2","0","2","4","-","0","2","-","3","0">>

GoodDateTime == <<"2","0","2","4","-","0","1","-","0","5"," ","0","9",":","3","0">>

\* A tool function of server.py was called with arguments a and returned
\* text.
Called(tool, a, text) == last' = [tool |-> tool, args |-> a, text |-> text]

\* create_patient(**a) for some a of A.
CreatePatientCall(A) ==
    \E a \in A :
        LET out == create_patient(patients, a)
        IN  /\ patients' = out.rows
            /\ Called("create_patient", a, out.text)
            /\ UNCHANGED <<server, sess, tables>>

\* update_patient(**a) for some a of A.
UpdatePatientCall(A) ==
    \E a \in A :
        LET out == update_patient(patients, a)
        IN  /\ patients' = out.rows
            /\ Called("update_patient", a, out.text)
            /\ UNCHANGED <<server, sess, tables>>

\* add_appointment(**a) for some a of A; a table takes MaxRecords rows more than
\* the sample rows.
AddAppointmentCall(A) ==
    \E a \in A :
        LET out == add_appointment(patients, appointments, a)
        IN  /\ Len(out.rows) <= Len(sample_appointments) + MaxRecords
            /\ appointments' = out.rows
            /\ Called("add_appointment", a, out.text)
            /\ UNCHANGED <<server, sess, patients, weight_records, vaccinations>>

\* add_weight_record(**a) for some a of A; a table takes MaxRecords rows more than
\* the sample rows.
AddWeightRecordCall(A) ==
    \E a \in A :
        LET out == add_weight_record(patients, weight_records, a)
        IN  /\ Len(out.rows) <= Len(sample_weights) + MaxRecords
            /\ weight_records' = out.rows
            /\ Called("add_weight_record", a, out.text)
            /\ UNCHANGED <<server, sess, patients, appointments, vaccinations>>

\* add_vaccination(**a) for some a of A; a table takes MaxRecords rows more than
\* the sample rows.
AddVaccinationCall(A) ==
    \E a \in A :
        LET out == add_vaccination(patients, vaccinations, a)
        IN  /\ Len(out.rows) <= Len(sample_vaccinations) + MaxRecords
            /\ vaccinations' = out.rows
            /\ Called("add_vaccination", a, out.text)
            /\ UNCHANGED <<server, sess, patients, appointments, weight_records>>

\* The patient ids the callers name: a sample patient, one that
\* create_patient may add, and one that never exists.
DbPatientIds == {"P001", "P010", "P099"}

DbCreateArgs == {RexArgs, [RexArgs EXCEPT !.id = "P001"]}

DbUpdateArgs == {[id |-> "P001", name |-> "Bo"],
                 [id |-> "P010", breed |-> "Pug"],
                 [id |-> "P099", name |-> "Bo"]}

DbAppointmentArgs ==
    {[patient_id |-> p, date |-> d, appointment_type |-> "Checkup",
      status |-> "Scheduled", notes |-> None] :
        p \in {"P001", "P099"}, d \in {GoodDateTime, GoodDate}}

DbWeightArgs ==
    {[patient_id |-> p, weight |-> w, date |-> GoodDate, note |-> None] :
        p \in DbPatientIds, w \in {-5, 0, 45}}
        \cup {[patient_id |-> "P001", weight |-> 45, date |-> BadDate,
               note |-> None]}

DbVaccinationArgs ==
    {[patient_id |-> p, type |-> "Rabies", date |-> d[1],
      expiration_date |-> d[2]] :
        p \in {"P010", "P099"},
        d \in {<<GoodDate, LenientDate>>, <<GoodDate, BadDate>>,
               <<BadDate, GoodDate>>}}

\* Any sequence of calls of the tools that write the store.
NextDb ==
    \/ CreatePatientCall(DbCreateArgs)
    \/ UpdatePatientCall(DbUpdateArgs)
    \/ AddAppointmentCall(DbAppointmentArgs)
    \/ AddWeightRecordCall(DbWeightArgs)
    \/ AddVaccinationCall(DbVaccinationArgs)

SpecDb == Init /\ [][NextDb]_vars

\* The arguments of create_patient and update_patient where the fields of
\* a patient matter: a field is left out, empty, or given.
PtCreateArgs ==
    {[RexArgs EXCEPT !.id = p] : p \in {"P001", "P010"}}
        \cup {[id |-> p, name |-> "Rex", species |-> "Dog", birth_date |-> d] :
                 p \in {"P001", "P010"},
                 d \in {<<>>, GoodDate, LenientDate, BadDate}}

PtUpdateFields ==
    {f \in [{"name", "breed", "birth_date"} -> {"left out", "empty", "given"}
                                                  \cup {"refused"}] :
        f["name"] # "refused" /\ f["breed"] \in {"left out", "empty"}}

PtUpdateValue(k, choice) ==
    IF k = "birth_date"
    THEN (IF choice = "empty" THEN <<>>
          ELSE IF choice = "given" THEN GoodDate ELSE BadDate)
    ELSE (IF choice = "empty" THEN "" ELSE "Bo")

PtUpdateArgs ==
    {[k \in {"id"} \cup {j \in DOMAIN f : f[j] # "left out"} |->
         IF k = "id" THEN p ELSE PtUpdateValue(k, f[k])] :
        p \in {"P001", "P010"}, f \in PtUpdateFields}

NextPatient ==
    \/ CreatePatientCall(PtCreateArgs)
    \/ UpdatePatientCall(PtUpdateArgs)

SpecPatient == Init /\ [][NextPatient]_vars

\* ------------------------------------------------ C16 .. C20

\* The returned string reports an error.
IsErrorText(text) ==
    text[1] \in {"Error: Patient with ID ",
                 "Error: Birth date must be in YYYY-MM-DD format.",
                 "Error: Date must be in YYYY-MM-DD HH:MM format.",
                 "Error: Date must be in YYYY-MM-DD format.",
                 "Error: Dates must be in YYYY-MM-DD format.",
                 "Error: Weight must be greater than zero.",
                 "Error creating patient: ",
                 "Error scheduling appointment: "}

\* At most one row of rows has each id.
UniqueIds(rows) ==
    \A i, j \in 1..Len(rows) : rows[i].id = rows[j].id => i = j

\* C16: patient ids are unique in every state reached from init_db by
\* create_patient and update_patient (and the add_ tools), and
\* create_patient with an id that exists returns an error and leaves
\* every table unchanged.
C16_PatientIdsUnique ==
    [][/\ UniqueIds(patients) /\ UniqueIds(patients')
       /\ (last'.tool = "create_patient"
              /\ PatientExists(patients, last'.args.id))
             => IsErrorText(last'.text) /\ UNCHANGED <<patients, tables>>]_vars

\* C16's case: create_patient was called with the id of a patient an
\* earlier create_patient added and update_patient changed.
C16_Witness ==
    /\ last.tool = "create_patient"
    /\ last.args.id = "P010"
    /\ IsErrorText(last.text)
    /\ \E i \in 1..Len(patients) :
          patients[i].id = "P010" /\ patients[i].breed = "Pug"

\* Every row of rows names a patient of prows.
References(rows, prows) ==
    \A i \in 1..Len(rows) : PatientExists(prows, rows[i].patient_id)

\* C17: every appointment, weight record and vaccination references a
\* patient that exists, and add_appointment, add_weight_record and
\* add_vaccination with an unknown patient id return an error and insert
\* nothing.
C17_RecordsReferencePatients ==
    [][/\ References(appointments', patients')
       /\ References(weight_records', patients')
       /\ References(vaccinations', patients')
       /\ (last'.tool \in {"add_appointment", "add_weight_record",
                           "add_vaccination"}
              /\ ~PatientExists(patients, last'.args.patient_id))
             => IsErrorText(last'.text) /\ UNCHANGED <<patients, tables>>]_vars

\* C17's case: a record was added for a patient create_patient added, and
\* the last call named a patient that does not exist.
C17_Witness ==
    /\ last.tool = "add_appointment"
    /\ ~PatientExists(patients, last.args.patient_id)
    /\ StrptimeYMDHM(last.args.date)
    /\ \E i \in 1..Len(vaccinations) : vaccinations[i].patient_id = "P010"

\* C18: every weight record has a weight greater than zero, and
\* add_weight_record with a weight of zero or less returns an error and
\* leaves the store unchanged.
C18_WeightsPositive ==
    [][/\ \A i \in 1..Len(weight_records') : weight_records'[i].weight > 0
       /\ (last'.tool = "add_weight_record" /\ last'.args.weight <= 0)
             => IsErrorText(last'.text) /\ UNCHANGED <<patients, tables>>]_vars

\* C18's case: add_weight_record was refused for the weight alone, zero,
\* after a record was added.
C18_Witness ==
    /\ last.tool = "add_weight_record"
    /\ last.args.weight = 0
    /\ last.text[1] = "Error: Weight must be greater than zero."
    /\ Len(weight_records) > Len(sample_weights)

\* A string in YYYY-MM-DD format: ten characters, a date of the calendar.
IsYMD(s) == Len(s) = 10 /\ IsDigit(s[9]) /\ StrptimeYMD(s)

\* C19: every patient's birth_date is null or a string in YYYY-MM-DD
\* format, and a call of create_patient or update_patient that supplies a
\* birth_date not in that format, the empty string included, returns an
\* error and leaves the patients unchanged.
C19_BirthDatesWellFormed ==
    [][/\ \A i \in 1..Len(patients') :
             patients'[i].birth_date = NoDate \/ IsYMD(patients'[i].birth_date)
       /\ (last'.tool \in {"create_patient", "update_patient"}
              /\ "birth_date" \in DOMAIN last'.args
              /\ ~IsYMD(last'.args.birth_date))
             => IsErrorText(last'.text) /\ UNCHANGED patients]_vars

\* What holds of the stored birth dates: null, empty, or a string
\* strptime accepts.
C19_BirthDatesParsedOrEmpty ==
    \A i \in 1..Len(patients) :
        \/ patients[i].birth_date \in {NoDate, <<>>}
        \/ StrptimeYMD(patients[i].birth_date)

\* The fields a call of update_patient provides: its arguments other than
\* the id.
Provided(a) == DOMAIN a \ {"id"}

\* The patients table after the fields F of patient a.id were set to the
\* values of a and nothing else was changed.
OnlyFieldsSet(F, a) ==
    /\ Len(patients') = Len(patients)
    /\ \A i \in 1..Len(patients) : \A k \in CreatePatientParams :
          patients'[i][k] = IF patients[i].id = a.id /\ k \in F
                            THEN a[k] ELSE patients[i][k]

\* C20: update_patient on an existing patient changes exactly the fields
\* that were provided, to the provided values, and nothing else in any
\* table; with no field provided it returns "No fields provided for
\* update." and changes nothing.
C20_UpdateChangesProvided ==
    [][(last'.tool = "update_patient"
           /\ PatientExists(patients, last'.args.id))
          => /\ OnlyFieldsSet(Provided(last'.args), last'.args)
             /\ UNCHANGED tables
             /\ Provided(last'.args) = {}
                   <=> last'.text[1] = "No fields provided for update."]_vars

\* The birth_date of a is one update_patient refuses: not empty and not
\* accepted by strptime.
Refused(a) ==
    /\ "birth_date" \in DOMAIN a
    /\ a.birth_date # <<>>
    /\ ~StrptimeYMD(a.birth_date)

\* The provided fields that count: a name or species only when not empty.
Effective(a) ==
    {k \in Provided(a) : k \in {"name", "species"} => a[k] # ""}

\* C20 as it holds: update_patient on an existing patient with a
\* birth_date it refuses returns an error and changes nothing; otherwise
\* it changes exactly the provided fields that count (an empty name or
\* species does not) to the provided values and nothing else in any
\* table, and with no such field it returns "No fields provided for
\* update." and changes nothing.
C20_UpdateChangesEffective ==
    [][(last'.tool = "update_patient"
           /\ PatientExists(patients, last'.args.id))
          => /\ UNCHANGED tables
             /\ IF Refused(last'.args)
                THEN IsErrorText(last'.text) /\ UNCHANGED patients
                ELSE /\ OnlyFieldsSet(Effective(last'.args), last'.args)
                     /\ Effective(last'.args) = {}
                           <=> last'.text[1] = "No fields provided for update."
                     /\ Effective(last'.args) # {}
                           <=> last'.text[1] = "Patient "]_vars

\* C20's case: update_patient was called for a patient create_patient
\* added, with an empty name and a birth date: the date was set and the
\* name was left alone.
C20_Witness ==
    /\ last.tool = "update_patient"
    /\ last.args.id = "P010"
    /\ DOMAIN last.args = {"id", "name", "birth_date"}
    /\ last.args.name = ""
    /\ last.args.birth_date = GoodDate
    /\ \E i \in 1..Len(patients) :
          /\ patients[i].id = "P010"
          /\ patients[i].name = "Rex"
          /\ patients[i].birth_date = GoodDate

\* --------------------------- tool functions run step by step, init_db

\* The state before init_db was ever called: no file vet_clinic.db, hence
\* no table and no row.
InitFresh ==
    /\ sess = [s \in Sessions |-> InitSession]
    /\ patients = <<>>
    /\ appointments = <<>>
    /\ weight_records = <<>>
    /\ vaccinations = <<>>
    /\ last = NoCall
    /\ db = "absent"
    /\ inv = [p \in Sessions |-> NoInvocation]

\* An init_db that removes an existing file and builds the database anew.
InitDbRecreate ==
    /\ db' = "ready"
    /\ patients' = sample_patients
    /\ appointments' = sample_appointments
    /\ weight_records' = sample_weights
    /\ vaccinations' = sample_vaccinations
    /\ last' = [tool |-> "init_db", args |-> <<>>,
                text |-> <<"Database initialized successfully with sample data.">>]
    /\ UNCHANGED <<sess, inv>>

\* init.py init_db(): returns at once when the file exists; otherwise
\* creates the four tables and inserts the sample rows. text is what it
\* prints last.
InitDb ==
    /\ IF db # "absent"
       THEN /\ last' = [tool |-> "init_db", args |-> <<>>,
                        text |-> <<"Database ", "vet_clinic.db",
                                   " already exists. Skipping initialization.">>]
            /\ UNCHANGED <<db, patients, tables>>
       ELSE /\ db' = "ready"
            /\ patients' = sample_patients
            /\ appointments' = sample_appointments
            /\ weight_records' = sample_weights
            /\ vaccinations' = sample_vaccinations
            /\ last' = [tool |-> "init_db", args |-> <<>>,
                        text |-> <<"Database initialized successfully with sample data.">>]
    /\ UNCHANGED <<sess, inv>>

\* conn = get_db_connection(); cursor = conn.cursor(): process p enters
\* tool function c[1] with arguments c[2]. sqlite3.connect creates the
\* file when there is none.
Enter(p, T) ==
    /\ \E c \in T :
          inv' = [inv EXCEPT ![p] = [pc |-> "select", tool |-> c[1],
                                     args |-> c[2], conn |-> "open",
                                     text |-> <<>>]]
    /\ db' = IF db = "absent" THEN "empty" ELSE db
    /\ UNCHANGED <<sess, patients, tables, last>>

\* The first tool call of process p.
BeginTool(p, T) == inv[p].pc = "idle" /\ Enter(p, T)

\* A further tool call of process p, after the one before returned or
\* raised.
AgainTool(p, T) == inv[p].pc \in {"returned", "raised"} /\ Enter(p, T)

\* conn.close(); return text.
Finish(r, text) ==
    [r EXCEPT !.pc = "returned", !.conn = "closed", !.text = text]

\* The step of process p: when it made the tool function return, last is
\* that call and its string.
Reported(p) ==
    last' = IF inv'[p].pc = "returned"
            THEN [tool |-> inv'[p].tool, args |-> inv'[p].args,
                  text |-> inv'[p].text]
            ELSE last

\* The patient id a tool call names.
PatientIdOf(r) ==
    IF r.tool = "create_patient" THEN Arg(r.args, "id") ELSE r.args.patient_id

\* cursor.execute("SELECT ... FROM patients WHERE id = ?").fetchone() and
\* the test on it. Without the table the query raises
\* sqlite3.OperationalError, which nothing in the tool function catches:
\* conn.close() is not reached, and the connection is closed only if and
\* when the runtime drops the last reference to it.
SelectPatient(p) ==
    /\ inv[p].pc = "select"
    /\ LET r == inv[p]
           found == PatientExists(patients, PatientIdOf(r))
       IN  IF db # "ready"
           THEN \E c \in {"open", "closed"} :
                   inv' = [inv EXCEPT ![p] = [r EXCEPT !.pc = "raised",
                                                       !.conn = c]]
           ELSE IF r.tool = "create_patient" /\ found
           THEN inv' = [inv EXCEPT ![p] =
                           Finish(r, <<"Error: Patient with ID ", PatientIdOf(r),
                                       " already exists.">>)]
           ELSE IF r.tool = "add_appointment" /\ ~found
           THEN inv' = [inv EXCEPT ![p] =
                           Finish(r, <<"Error: Patient with ID ", PatientIdOf(r),
                                       " not found.">>)]
           ELSE inv' = [inv EXCEPT ![p] = [r EXCEPT !.pc = "validate"]]
    /\ Reported(p)
    /\ UNCHANGED <<sess, patients, tables, db>>

\* The strptime validation of the tool function and its error return.
ValidateDates(p) ==
    /\ inv[p].pc = "validate"
    /\ LET r == inv[p]
       IN  IF r.tool = "create_patient"
           THEN IF TruthyDate(Arg(r.args, "birth_date"))
                      /\ ~StrptimeYMD(Arg(r.args, "birth_date"))
                THEN inv' = [inv EXCEPT ![p] =
                        Finish(r, <<"Error: Birth date must be in YYYY-MM-DD format.">>)]
                ELSE inv' = [inv EXCEPT ![p] = [r EXCEPT !.pc = "insert"]]
           ELSE IF ~StrptimeYMDHM(r.args.date)
                THEN inv' = [inv EXCEPT ![p] =
                        Finish(r, <<"Error: Date must be in YYYY-MM-DD HH:MM format.">>)]
                ELSE inv' = [inv EXCEPT ![p] = [r EXCEPT !.pc = "insert"]]
    /\ Reported(p)
    /\ UNCHANGED <<sess, patients, tables, db>>

\* A patients table declared without PRIMARY KEY.
PrimaryKeyNotDeclared(rows, id) == FALSE

\* id TEXT PRIMARY KEY: an INSERT of an id the table holds fails with
\* sqlite3.IntegrityError.
PrimaryKeyViolated(rows, id) == PatientExists(rows, id)

\* Another process has executed its INSERT and not committed yet: it
\* holds the write lock of the database file.
WriteLocked(p) == \E q \in Sessions \ {p} : inv[q].pc = "commit"

\* except sqlite3.Error as e: conn.close(); return f"Error ...: {str(e)}".
ExceptSqlite(r, e) ==
    Finish(r, <<IF r.tool = "create_patient" THEN "Error creating patient: "
                ELSE "Error scheduling appointment: ", e>>)

\* try: cursor.execute("INSERT ..."). While another process holds the
\* write lock the statement waits and, when the busy timeout runs out,
\* fails with "database is locked"; on a patient id the table holds it
\* fails on the primary key; both are caught. Otherwise the row is
\* written to the connection's transaction.
ExecuteInsert(p) ==
    /\ inv[p].pc = "insert"
    /\ LET r == inv[p]
       IN  IF WriteLocked(p)
           THEN inv' = [inv EXCEPT ![p] = ExceptSqlite(r, "database is locked")]
           ELSE IF r.tool = "create_patient"
                     /\ PrimaryKeyViolated(patients, PatientIdOf(r))
           THEN inv' = [inv EXCEPT ![p] =
                   ExceptSqlite(r, "UNIQUE constraint failed: patients.id")]
           ELSE /\ r.tool = "add_appointment" =>
                      Len(appointments) < Len(sample_appointments) + MaxRecords
                /\ inv' = [inv EXCEPT ![p] = [r EXCEPT !.pc = "commit"]]
    /\ Reported(p)
    /\ UNCHANGED <<sess, patients, tables, db>>

\* conn.commit(); conn.close(); return the success string: the row
\* becomes part of the table.
CommitInsert(p) ==
    /\ inv[p].pc = "commit"
    /\ LET r == inv[p]
       IN  IF r.tool = "create_patient"
           THEN /\ patients' = InsertPatient(patients, r.args)
                /\ inv' = [inv EXCEPT ![p] =
                      Finish(r, <<"Patient ", Arg(r.args, "name"), " (ID: ",
                                  Arg(r.args, "id"), ") created successfully.">>)]
                /\ UNCHANGED tables
           ELSE LET out == add_appointment(patients, appointments, r.args)
                IN  /\ appointments' = out.rows
                    /\ inv' = [inv EXCEPT ![p] = Finish(r, out.text)]
                    /\ UNCHANGED <<patients, weight_records, vaccinations>>
    /\ Reported(p)
    /\ UNCHANGED <<sess, db>>

\* The calls the tool-provider processes make beside init_db.
SrvCalls ==
    { <<"create_patient", RexArgs>>,
      <<"create_patient", [id |-> "P001", name |-> "Rex", species |-> "Dog"]>>,
      <<"create_patient", [id |-> "P011", name |-> "Rex", species |-> "Dog",
                           birth_date |-> BadDate]>>,
      <<"add_appointment",
        [patient_id |-> "P010", date |-> GoodDateTime,
         appointment_type |-> "Checkup", status |-> "Scheduled",
         notes |-> None]>>,
      <<"add_appointment",
        [patient_id |-> "P001", date |-> GoodDate,
         appointment_type |-> "Checkup", status |-> "Scheduled",
         notes |-> None]>> }

NextServer ==
    \/ InitDb
    \/ \E p \in Sessions :
          \/ BeginTool(p, SrvCalls)
          \/ AgainTool(p, SrvCalls)
          \/ SelectPatient(p)
          \/ ValidateDates(p)
          \/ ExecuteInsert(p)
          \/ CommitInsert(p)

SpecServer == InitFresh /\ [][NextServer]_vars

\* Two tool-provider processes, each making one create_patient call on
\* the database init_db made, with ids no patient has.
RaceCalls ==
    { <<"create_patient", RexArgs>>,
      <<"create_patient", [id |-> "P010", name |-> "Tom", species |-> "Cat"]>>,
      <<"create_patient", [id |-> "P011", name |-> "Tom", species |-> "Cat"]>> }

NextRace ==
    \E p \in Sessions :
        \/ BeginTool(p, RaceCalls)
        \/ SelectPatient(p)
        \/ ValidateDates(p)
        \/ ExecuteInsert(p)
        \/ CommitInsert(p)

SpecRace == Init /\ [][NextRace]_vars

\* ------------------------------------------------ C21 .. C23

\* C21: after a tool invocation has returned or raised, the connection it
\* opened is closed, on every exit path: success, validation failure,
\* not-found, and an exception raised by a query.
C21_ConnectionReleased ==
    \A p \in Sessions :
        inv[p].pc \in {"returned", "raised"} => inv[p].conn = "closed"

\* The part of C21 about the paths that return: the connection is closed
\* whenever the tool function returned a string.
C21_ClosedOnReturn ==
    \A p \in Sessions :
        inv[p].pc = "returned" => inv[p].conn = "closed"

\* The tool function has left, by return or by exception.
Left(r) == r.pc \in {"returned", "raised"}

\* The tool function returned its success string.
ReportsSuccess(r) == r.pc = "returned" /\ r.text[1] = "Patient "

\* The tool function returned an error string.
ReturnsError(r) == r.pc = "returned" /\ IsErrorText(r.text)

\* Both processes ran create_patient with the same id and both calls
\* are over.
SameIdCallsOver ==
    /\ \A p \in Sessions : Left(inv[p]) /\ inv[p].tool = "create_patient"
    /\ \A p, q \in Sessions : PatientIdOf(inv[p]) = PatientIdOf(inv[q])

Occurrences(row, rows) == Cardinality({i \in 1..Len(rows) : rows[i] = row})

\* No sample row of init_db is in its table more than once.
SamplesAtMostOnce ==
    /\ \A k \in 1..Len(sample_patients) :
          Cardinality({i \in 1..Len(patients) :
                          patients[i].id = sample_patients[k].id}) <= 1
    /\ \A k \in 1..Len(sample_appointments) :
          Occurrences(sample_appointments[k], appointments) <= 1
    /\ \A k \in 1..Len(sample_weights) :
          Occurrences(sample_weights[k], weight_records) <= 1
    /\ \A k \in 1..Len(sample_vaccinations) :
          Occurrences(sample_vaccinations[k], vaccinations) <= 1

\* C23: init_db is idempotent and non-destructive: called when the file
\* exists it changes nothing in any table; it inserts the sample rows only
\* into the database it has just created, which no later step makes absent
\* again, so the sample rows are inserted at most once and no data written
\* by a tool is removed or overwritten by it.
C23_InitDbNonDestructive ==
    [][/\ db # "absent" => db' # "absent"
       /\ SamplesAtMostOnce'
       /\ (inv' = inv /\ last'.tool = "init_db") =>
             IF db = "absent"
             THEN /\ patients = <<>> /\ appointments = <<>>
                  /\ weight_records = <<>> /\ vaccinations = <<>>
                  /\ db' = "ready"
             ELSE UNCHANGED <<db, patients, tables>>]_vars

\* C23's case: init_db made the database, tools added a patient and an
\* appointment, and init_db was called again after that.
C23_Witness ==
    /\ last.tool = "init_db"
    /\ last.text[1] = "Database "
    /\ db = "ready"
    /\ PatientExists(patients, "P010")
    /\ \E i \in 1..Len(appointments) : appointments[i].patient_id = "P010"

====
